---- MODULE Spec2Model ----
(***************************************************************************)
(* Model of the pyke demonstration programs.                               *)
(*                                                                         *)
(*   demos/simple/src/simple.cpp      main of the GUI demo                 *)
(*   demos/simple/src/simple_ui.cpp   simple_ui's constructor and on_click *)
(*   demos/ext_deps/src/main.cpp      main of the parse-and-query demo     *)
(*                                                                         *)
(* Each program is a sequential process; pc (GUI demo) and dpc (parse      *)
(* demo) hold the statement the process is about to execute.  The calls    *)
(* into gtkmm, humon and the demo libraries are inputs: each call's        *)
(* outcome is drawn from a small set of outcomes.                          *)
(***************************************************************************)
EXTENDS Integers, Sequences, FiniteSets, TLC

VARIABLES
    pc,            \* GUI demo: position in main / simple_ui::simple_ui
    calls,         \* GUI demo: toolkit calls main has made so far
    argvReceivers, \* GUI demo: the calls that were handed argc/argv
    present,       \* names the loaded layout holds (with the expected type)
    thrownBy,      \* the call that threw ("none" while nothing was thrown)
    thrown,        \* the type of the exception thrown ("none" ...)
    window,        \* main's local `window`: "null" or "obj"
    windowObj,     \* the simple_ui object: "none", "live" or "deleted"
    deletes,       \* number of delete-expressions applied to a non-null pointer
    visible,       \* the window is shown
    connected,     \* quit's clicked signal is connected to on_click
    button,        \* constructor local `button`: "null" or a widget name
    label,         \* constructor local `label`: "null" or a widget name
    idx,           \* which of the four label blocks the constructor is in
    text,          \* text shown by each label
    writes,        \* set_text calls made: <<label written, getter index>>
    nullDeref,     \* a null widget pointer was dereferenced
    strs,          \* the strings the four getters return
    out,           \* GUI demo: standard output
    exitStatus,    \* GUI demo: -1 while running, else the process's status
    clicks,        \* clicks on the quit button so far
    dpc,           \* parse demo: position in main
    h,             \* parse demo: the variant returned by Trove::fromString
    queried,       \* parse demo: keys looked up in the trove
    foobar,        \* parse demo: local `foobar`
    dout,          \* parse demo: standard output
    dstatus        \* parse demo: -1 while running, else the exit status

guiVars == <<pc, calls, argvReceivers, present, thrownBy, thrown, window,
             windowObj, deletes, visible, connected, button, label, idx, text,
             writes, nullDeref, strs, out, exitStatus, clicks>>
demoVars == <<dpc, h, queried, foobar, dout, dstatus>>
vars == <<guiVars, demoVars>>

\* Bound on the clicks the user makes on the quit button while the loop runs.
MaxClicks == 2

-----------------------------------------------------------------------------
(* GUI demo: names                                                         *)

LabelNames == <<"static_a", "static_b", "dynamic_a", "dynamic_b">>
LabelSet == {LabelNames[i] : i \in 1..4}
WidgetNames == {"main", "quit"} \cup LabelSet

\* The getters, in the order the constructor calls them:
\* 1 lib.get_a_string(), 2 lib.get_b_string(), 3 get_a_string(), 4 get_b_string()
StringVals == {"a string", "b string"}
LayoutText == "label"

\* What add_from_file throws on a missing or corrupt file (gtkmm 3: the
\* Glib::Error family, which does not derive from std::exception), and what
\* any call may throw.
ToolkitLoadErrors == {"Glib::FileError", "Glib::MarkupError", "Gtk::BuilderError"}
LoadThrows == ToolkitLoadErrors \cup {"std::bad_alloc"}
CallThrows == {"std::bad_alloc", "Glib::Error"}

\* catch(const std::exception & ex): the handler is entered only for a type
\* derived from std::exception.
CatchesStdException(k) == k \in {"std::bad_alloc"}

\* The calls of main that are written with argc, argv among their arguments.
ReceivesArgsEverywhere(call) == TRUE
ReceivesArgs(call) == call \in {"Gtk::Application::create", "Gtk::Application::run"}

Call(call) ==
    /\ calls' = calls \cup {call}
    /\ argvReceivers' = argvReceivers \cup (IF ReceivesArgs(call) THEN {call} ELSE {})

\* delete p
Delete(p) ==
    IF p = "null"
    THEN UNCHANGED <<windowObj, deletes>>
    ELSE /\ windowObj' = "deleted"
         /\ deletes' = deletes + 1

\* An exception of type k leaves a try block whose handler is
\* catch(const std::exception &): the handler at `handler` runs, or the
\* exception leaves main and std::terminate aborts the process.
Raise(call, k, handler) ==
    /\ thrownBy' = call
    /\ thrown' = k
    /\ IF CatchesStdException(k)
       THEN /\ pc' = handler
            /\ exitStatus' = exitStatus
       ELSE /\ pc' = "terminated"
            /\ exitStatus' = 134

ctorVars == <<button, label, idx, text, writes, nullDeref, connected>>

-----------------------------------------------------------------------------
(* GUI demo: main                                                          *)

GuiInit ==
    /\ pc = "create_app"
    /\ calls = {}
    /\ argvReceivers = {}
    /\ present = {}
    /\ thrownBy = "none"
    /\ thrown = "none"
    /\ window = "null"
    /\ windowObj = "none"
    /\ deletes = 0
    /\ visible = FALSE
    /\ connected = FALSE
    /\ button = "null"
    /\ label = "null"
    /\ idx = 0
    /\ text = [n \in LabelSet |-> LayoutText]
    /\ writes = {}
    /\ nullDeref = FALSE
    /\ strs \in [1..4 -> StringVals]
    /\ out = <<>>
    /\ exitStatus = -1
    /\ clicks = 0

\* auto app = Gtk::Application::create(argc, argv, "org.spacemeat.pyke");
CreateApp ==
    /\ pc = "create_app"
    /\ Call("Gtk::Application::create")
    /\ pc' = "create_builder"
    /\ UNCHANGED <<present, thrownBy, thrown, window, windowObj, deletes, visible,
                   ctorVars, strs, out, exitStatus, clicks, demoVars>>

\* auto builder = Gtk::Builder::create();
CreateBuilder ==
    /\ pc = "create_builder"
    /\ Call("Gtk::Builder::create")
    /\ pc' = "load"
    /\ UNCHANGED <<present, thrownBy, thrown, window, windowObj, deletes, visible,
                   ctorVars, strs, out, exitStatus, clicks, demoVars>>

\* builder->add_from_file("res/simple.glade"); returns with the layout loaded
LoadOk ==
    /\ pc = "load"
    /\ Call("Gtk::Builder::add_from_file")
    /\ present' \in SUBSET WidgetNames
    /\ pc' = "get_main"
    /\ UNCHANGED <<thrownBy, thrown, window, windowObj, deletes, visible,
                   ctorVars, strs, out, exitStatus, clicks, demoVars>>

\* builder->add_from_file("res/simple.glade"); throws
LoadThrow ==
    /\ pc = "load"
    /\ Call("Gtk::Builder::add_from_file")
    /\ \E k \in LoadThrows : Raise("Gtk::Builder::add_from_file", k, "load_catch")
    /\ UNCHANGED <<present, window, windowObj, deletes, visible,
                   ctorVars, strs, out, clicks, demoVars>>

\* std::cout << "Error loading glade file: " << ex.what() << std::endl; return 1;
LoadCatch ==
    /\ pc = "load_catch"
    /\ out' = Append(out, <<"Error loading glade file: ", thrown, "\n">>)
    /\ exitStatus' = 1
    /\ pc' = "done"
    /\ UNCHANGED <<calls, argvReceivers, present, thrownBy, thrown, window,
                   windowObj, deletes, visible, ctorVars, strs, clicks, demoVars>>

\* builder->get_widget_derived("main", window); no "main" in the layout:
\* window stays null
GetMainAbsent ==
    /\ pc = "get_main"
    /\ "main" \notin present
    /\ Call("Gtk::Builder::get_widget_derived")
    /\ window' = "null"
    /\ pc' = "check_window"
    /\ UNCHANGED <<present, thrownBy, thrown, windowObj, deletes, visible,
                   ctorVars, strs, out, exitStatus, clicks, demoVars>>

\* builder->get_widget_derived("main", window); "main" is found and
\* new simple_ui(cObj, builder) starts
GetMainConstruct ==
    /\ pc = "get_main"
    /\ "main" \in present
    /\ Call("Gtk::Builder::get_widget_derived")
    /\ pc' = "ctor_button"
    /\ UNCHANGED <<present, thrownBy, thrown, window, windowObj, deletes, visible,
                   ctorVars, strs, out, exitStatus, clicks, demoVars>>

-----------------------------------------------------------------------------
(* GUI demo: simple_ui::simple_ui, run inside get_widget_derived           *)

CtorPcs == {"ctor_button", "ctor_connect", "ctor_label_reset",
            "ctor_label_get", "ctor_label_set"}

\* builder->get_widget(name, p): p points to the widget when the layout
\* holds it; otherwise the out-parameter is left alone or nulled.
GetWidget(name, old) == IF name \in present THEN {name} ELSE {old, "null"}

\* Gtk::Button * button = nullptr;  Gtk::Label * label = nullptr;
\* label = nullptr;
ResetPointerMissing(old) == old
ResetPointer(old) == "null"

\* if (button)  /  if (label)
NullTest(p) == p # "null"

\* The getter whose result the i-th label block hands to set_text.
GetterForShifted(i) == IF i = 4 THEN 1 ELSE i + 1
GetterFor(i) == i

\* The widget name the i-th label block looks up.
LookupName(i) == LabelNames[i]

\* p->set_text(s), where s is the result of getter g
SetText(p, g) ==
    IF p = "null"
    THEN /\ nullDeref' = TRUE
         /\ UNCHANGED <<text, writes>>
    ELSE /\ text' = [text EXCEPT ![p] = strs[g]]
         /\ writes' = writes \cup {<<p, g>>}
         /\ UNCHANGED nullDeref

\* Gtk::Button * button = nullptr; builder->get_widget("quit", button);
CtorButton ==
    /\ pc = "ctor_button"
    /\ button' \in GetWidget("quit", ResetPointer(button))
    /\ pc' = "ctor_connect"
    /\ UNCHANGED <<calls, argvReceivers, present, thrownBy, thrown, window,
                   windowObj, deletes, visible, connected, label, idx, text,
                   writes, nullDeref, strs, out, exitStatus, clicks, demoVars>>

\* if (button) { button->signal_clicked().connect(sigc::mem_fun(*this, &on_click)); }
\* simple::simple_lib lib;
CtorConnect ==
    /\ pc = "ctor_connect"
    /\ IF NullTest(button)
       THEN IF button = "null"
            THEN nullDeref' = TRUE /\ UNCHANGED connected
            ELSE connected' = TRUE /\ UNCHANGED nullDeref
       ELSE UNCHANGED <<connected, nullDeref>>
    /\ idx' = 1
    /\ pc' = "ctor_label_reset"
    /\ UNCHANGED <<calls, argvReceivers, present, thrownBy, thrown, window,
                   windowObj, deletes, visible, button, label, text,
                   writes, strs, out, exitStatus, clicks, demoVars>>

\* Gtk::Label * label = nullptr;   (first block)   label = nullptr;   (others)
CtorLabelReset ==
    /\ pc = "ctor_label_reset"
    /\ label' = ResetPointer(label)
    /\ pc' = "ctor_label_get"
    /\ UNCHANGED <<calls, argvReceivers, present, thrownBy, thrown, window,
                   windowObj, deletes, visible, connected, button, idx, text,
                   writes, nullDeref, strs, out, exitStatus, clicks, demoVars>>

\* builder->get_widget("static_a" | "static_b" | "dynamic_a" | "dynamic_b", label);
CtorLabelGet ==
    /\ pc = "ctor_label_get"
    /\ label' \in GetWidget(LookupName(idx), label)
    /\ pc' = "ctor_label_set"
    /\ UNCHANGED <<calls, argvReceivers, present, thrownBy, thrown, window,
                   windowObj, deletes, visible, connected, button, idx, text,
                   writes, nullDeref, strs, out, exitStatus, clicks, demoVars>>

\* if (label) { label->set_text(<getter>()); }  and, after the fourth block,
\* the constructor returns and get_widget_derived stores the object in window
CtorLabelSet ==
    /\ pc = "ctor_label_set"
    /\ IF NullTest(label)
       THEN SetText(label, GetterFor(idx))
       ELSE UNCHANGED <<text, writes, nullDeref>>
    /\ IF idx < 4
       THEN /\ idx' = idx + 1
            /\ pc' = "ctor_label_reset"
            /\ UNCHANGED <<window, windowObj>>
       ELSE /\ idx' = idx
            /\ pc' = "check_window"
            /\ window' = "obj"
            /\ windowObj' = "live"
    /\ UNCHANGED <<calls, argvReceivers, present, thrownBy, thrown,
                   deletes, visible, connected, button, label,
                   strs, out, exitStatus, clicks, demoVars>>

\* A statement of the constructor throws: the new-expression releases the
\* storage and get_widget_derived leaves window null.
CtorThrow ==
    /\ pc \in CtorPcs
    /\ \E k \in CallThrows : Raise("Gtk::Builder::get_widget_derived", k, "run_catch")
    /\ UNCHANGED <<calls, argvReceivers, present, window, windowObj, deletes,
                   visible, ctorVars, strs, out, clicks, demoVars>>

-----------------------------------------------------------------------------
(* GUI demo: the rest of main, and the run loop                            *)

\* if (window)
CheckWindow ==
    /\ pc = "check_window"
    /\ pc' = IF window # "null" THEN "call_run" ELSE "final_delete"
    /\ UNCHANGED <<calls, argvReceivers, present, thrownBy, thrown, window,
                   windowObj, deletes, visible, ctorVars, strs, out, exitStatus,
                   clicks, demoVars>>

\* app->run(*window, argc, argv); the application shows the window and
\* enters its main loop
RunEnter ==
    /\ pc = "call_run"
    /\ Call("Gtk::Application::run")
    /\ visible' = TRUE
    /\ pc' = "run"
    /\ UNCHANGED <<present, thrownBy, thrown, window, windowObj, deletes,
                   ctorVars, strs, out, exitStatus, clicks, demoVars>>

\* void simple::simple_ui::on_click() { hide(); }
on_click_nohide == visible' = visible
on_click == visible' = FALSE

\* The user clicks the quit button: the clicked signal runs its slots.
Click ==
    /\ pc = "run"
    /\ visible
    /\ "quit" \in present
    /\ clicks < MaxClicks
    /\ clicks' = clicks + 1
    /\ IF connected THEN on_click ELSE UNCHANGED visible
    /\ UNCHANGED <<pc, calls, argvReceivers, present, thrownBy, thrown, window,
                   windowObj, deletes, ctorVars, strs, out, exitStatus, demoVars>>

\* app->run returns once its window is hidden
RunReturn ==
    /\ pc = "run"
    /\ ~visible
    /\ pc' = "final_delete"
    /\ UNCHANGED <<calls, argvReceivers, present, thrownBy, thrown, window,
                   windowObj, deletes, visible, ctorVars, strs, out, exitStatus,
                   clicks, demoVars>>

\* app->run throws while the loop is running
RunThrow ==
    /\ pc = "run"
    /\ visible
    /\ \E k \in CallThrows : Raise("Gtk::Application::run", k, "run_catch")
    /\ UNCHANGED <<calls, argvReceivers, present, window, windowObj, deletes,
                   visible, ctorVars, strs, out, clicks, demoVars>>

\* window = nullptr;   (in the handler)
HandlerResetMissing(w) == w
HandlerReset(w) == "null"

\* catch(const std::exception & ex) { delete window; window = nullptr; }
RunCatch ==
    /\ pc = "run_catch"
    /\ Delete(window)
    /\ window' = HandlerReset(window)
    /\ pc' = "final_delete"
    /\ UNCHANGED <<calls, argvReceivers, present, thrownBy, thrown, visible,
                   ctorVars, strs, out, exitStatus, clicks, demoVars>>

\* delete window; return 0;
FinalDelete ==
    /\ pc = "final_delete"
    /\ Delete(window)
    /\ exitStatus' = 0
    /\ pc' = "done"
    /\ UNCHANGED <<calls, argvReceivers, present, thrownBy, thrown, window,
                   visible, ctorVars, strs, out, clicks, demoVars>>

\* The statements main executes by itself (everything but the user's clicks
\* and the exceptions the toolkit may raise).
MainStep ==
    \/ CreateApp \/ CreateBuilder \/ LoadOk \/ LoadCatch
    \/ GetMainAbsent \/ GetMainConstruct
    \/ CtorButton \/ CtorConnect \/ CtorLabelReset \/ CtorLabelGet \/ CtorLabelSet
    \/ CheckWindow \/ RunEnter \/ RunReturn \/ RunCatch \/ FinalDelete

GuiNext == MainStep \/ LoadThrow \/ CtorThrow \/ Click \/ RunThrow

-----------------------------------------------------------------------------
(* Parse-and-query demo: main                                              *)

\* What Trove::fromString may hand back: a Trove (here a dictionary from keys
\* to string values) or the other alternative of the variant, an error code.
Keys == {"foo", "bar", "baz"}
Vals == {"bar", "qux", "xyzzy"}
Dicts == UNION {[S -> Vals] : S \in SUBSET Keys}
ErrorCodes == {"badEncoding", "outOfMemory", "badParameter"}
ParseResults ==
    {[tag |-> "Trove", dict |-> d, code |-> "noError"] : d \in Dicts}
    \cup {[tag |-> "ErrorCode", dict |-> <<>>, code |-> c] : c \in ErrorCodes}
NoResult == [tag |-> "none", dict |-> <<>>, code |-> "noError"]

\* std::get_if<hu::Trove>(& h) yields a non-null pointer
GetIfAlways(v) == TRUE
GetIfTrove(v) == v.tag = "Trove"

\* the key in *t / "foo"
QueryKeyBar == "bar"
QueryKey == "foo"

\* *t / key % hu::val<std::string_view> {}: the value under key, or the
\* empty string when there is no such node
Lookup(v, key) ==
    IF v.tag = "Trove" /\ key \in DOMAIN v.dict THEN v.dict[key] ELSE ""

DemoInit ==
    /\ dpc = "parse"
    /\ h = NoResult
    /\ queried = <<>>
    /\ foobar = "unset"
    /\ dout = <<>>
    /\ dstatus = -1

\* auto src = "{foo:bar}"; auto h = hu::Trove::fromString(src);
Parse ==
    /\ dpc = "parse"
    /\ h' \in ParseResults
    /\ dpc' = "get_if"
    /\ UNCHANGED <<queried, foobar, dout, dstatus, guiVars>>

\* if (auto t = std::get_if<hu::Trove>(& h)) ... else ...
GetIf ==
    /\ dpc = "get_if"
    /\ dpc' = IF GetIfTrove(h) THEN "query" ELSE "print_plugh"
    /\ UNCHANGED <<h, queried, foobar, dout, dstatus, guiVars>>

\* auto foobar = *t / "foo" % hu::val<std::string_view> {};
Query ==
    /\ dpc = "query"
    /\ queried' = Append(queried, QueryKey)
    /\ foobar' = Lookup(h, QueryKey)
    /\ dpc' = "print_foobar"
    /\ UNCHANGED <<h, dout, dstatus, guiVars>>

\* fmt::print("{}", foobar);
PrintFoobar ==
    /\ dpc = "print_foobar"
    /\ dout' = Append(dout, foobar)
    /\ dpc' = "return"
    /\ UNCHANGED <<h, queried, foobar, dstatus, guiVars>>

\* fmt::print("plugh");
PrintPlugh ==
    /\ dpc = "print_plugh"
    /\ dout' = Append(dout, "plugh")
    /\ dpc' = "return"
    /\ UNCHANGED <<h, queried, foobar, dstatus, guiVars>>

\* main's closing brace: main returns 0
DemoReturn ==
    /\ dpc = "return"
    /\ dstatus' = 0
    /\ dpc' = "done"
    /\ UNCHANGED <<h, queried, foobar, dout, guiVars>>

DemoNext == Parse \/ GetIf \/ Query \/ PrintFoobar \/ PrintPlugh \/ DemoReturn

-----------------------------------------------------------------------------
(* Specifications                                                          *)

\* The GUI demo runs; the parse demo is not started.
Init == GuiInit /\ DemoInit
Next == GuiNext
Spec == Init /\ [][Next]_vars

\* The GUI demo, with main's own statements always executed in the end.
\* Clicks and toolkit exceptions are not forced.
FairSpec == Spec /\ WF_vars(MainStep)

\* The parse demo runs; the GUI demo is not started.
DemoSpecInit == DemoInit /\ GuiInit /\ strs = [i \in 1..4 |-> "a string"]
DemoSpec == DemoSpecInit /\ [][DemoNext]_vars

-----------------------------------------------------------------------------
(* Properties                                                              *)

LoadFailed == thrownBy = "Gtk::Builder::add_from_file"
Ended == pc \in {"done", "terminated"}
ValidLayout == present = WidgetNames
CtorFinished == window = "obj" \/ windowObj # "none"

\* C1: when add_from_file fails with one of the toolkit's load errors, main
\* prints one error message, exits with status 1, and neither retrieves the
\* main window nor enters the run loop.
C1_LoadFailureReported ==
    (LoadFailed /\ thrown \in ToolkitLoadErrors /\ Ended) =>
        /\ Len(out) = 1
        /\ exitStatus = 1
        /\ "Gtk::Builder::get_widget_derived" \notin calls
        /\ "Gtk::Application::run" \notin calls

\* The document the text {foo:bar} denotes.
FooBarDoc == [k \in {"foo"} |-> "bar"]

\* C2: when fromString yields a Trove, main looks up the key "foo" once and
\* prints the value found under it, once, and nothing else; for the document
\* of {foo:bar} the output is bar, and the fallback plugh is never printed.
C2_PrintsValueOfFoo ==
    h.tag = "Trove" =>
        /\ dpc \notin {"print_plugh"}
        /\ \A i \in 1..Len(dout) : dout[i] # "plugh"
        /\ Len(dout) <= 1
        /\ Len(queried) <= 1
        /\ dpc = "done" =>
            /\ queried = <<"foo">>
            /\ "foo" \in DOMAIN h.dict => dout = <<h.dict["foo"]>>
            /\ "foo" \notin DOMAIN h.dict => dout = <<"">>
            /\ h.dict = FooBarDoc => dout = <<"bar">>

C2_Witness ==
    /\ dpc = "done"
    /\ h.tag = "Trove"
    /\ h.dict = FooBarDoc
    /\ dout = <<"bar">>

\* C3: whenever fromString yields the alternative that is not a Trove, no
\* key is looked up, the output is exactly plugh, and main returns 0.
C3_FallbackPlugh ==
    h.tag = "ErrorCode" =>
        /\ queried = <<>>
        /\ foobar = "unset"
        /\ dpc \notin {"query", "print_foobar"}
        /\ dout \in {<<>>, <<"plugh">>}
        /\ dpc \in {"return", "done"} => dout = <<"plugh">>
        /\ dpc = "done" => dstatus = 0

C3_Witness ==
    /\ dpc = "done"
    /\ h.tag = "ErrorCode"
    /\ dout = <<"plugh">>
    /\ dstatus = 0

\* C4: with all widgets in the layout, once the constructor has finished the
\* i-th label shows the string its own getter returned, and each label was
\* written by its own getter only.
C4_LabelsShowGetters ==
    (ValidLayout /\ CtorFinished) =>
        /\ \A i \in 1..4 : text[LabelNames[i]] = strs[i]
        /\ writes = {<<LabelNames[i], i>> : i \in 1..4}

C4_Witness ==
    /\ ValidLayout
    /\ CtorFinished
    /\ strs[1] # strs[2]
    /\ strs[3] # strs[4]
    /\ strs[1] # strs[3]
    /\ \A i \in 1..4 : text[LabelNames[i]] = strs[i]

\* C5: with a valid layout the finished constructor has connected quit's
\* clicked signal to on_click; every click on a connected button hides the
\* window; and once the window is hidden the run loop returns and main
\* ends with status 0.
C5_QuitClosesWindow ==
    /\ []((ValidLayout /\ CtorFinished) => connected)
    /\ [][(clicks' = clicks + 1 /\ connected) => ~visible']_vars
    /\ (pc = "run" /\ ~visible) ~> (pc = "done" /\ exitStatus = 0)

C5_Witness ==
    /\ ValidLayout
    /\ clicks = 1
    /\ ~visible
    /\ pc = "done"
    /\ exitStatus = 0

\* C6: main's exit status is 1 exactly when the layout failed to load, and 0
\* on every other path that ends.
C6_ExitStatus ==
    Ended =>
        /\ exitStatus = 1 <=> LoadFailed
        /\ ~LoadFailed => exitStatus = 0

\* C7: when get_widget_derived throws after a successful load, nothing is
\* printed, the run loop is not entered, and main returns (the exception
\* does not leave main).
C7_RetrievalErrorSwallowed ==
    thrownBy = "Gtk::Builder::get_widget_derived" =>
        /\ out = <<>>
        /\ "Gtk::Application::run" \notin calls
        /\ pc # "terminated"

\* C8 as stated: argc/argv are handed to Gtk::Application::create only.
C8_ArgsOnlyToCreate ==
    argvReceivers \subseteq {"Gtk::Application::create"}

\* C8, amended: argc/argv are handed to Gtk::Application::create and to
\* Gtk::Application::run, each time main calls them, and to no other call.
C8_ArgsToCreateAndRun ==
    argvReceivers = calls \cap {"Gtk::Application::create", "Gtk::Application::run"}

C8_Witness ==
    /\ pc = "done"
    /\ calls = {"Gtk::Application::create", "Gtk::Builder::create",
                "Gtk::Builder::add_from_file", "Gtk::Builder::get_widget_derived",
                "Gtk::Application::run"}
    /\ argvReceivers = {"Gtk::Application::create", "Gtk::Application::run"}

\* C9: the window object is never deleted twice; when main returns after a
\* successful load, an object that was obtained has been deleted exactly
\* once and, when none was obtained, nothing was deleted; after the handler
\* has run, window is null, so the delete that follows does nothing.
C9_WindowDeletedOnce ==
    /\ deletes <= 1
    /\ windowObj = "none" => deletes = 0
    /\ (pc = "final_delete" /\ thrownBy # "none") => window = "null"
    /\ (pc = "done" /\ ~LoadFailed) =>
        /\ windowObj \in {"none", "deleted"}
        /\ windowObj = "deleted" => deletes = 1

C9_Witness ==
    /\ pc = "done"
    /\ thrownBy = "Gtk::Application::run"
    /\ windowObj = "deleted"
    /\ deletes = 1

\* C10: no null widget pointer is dereferenced; a label is written only by
\* the getter of its own block and only when the layout holds it; and when
\* the constructor has finished, every widget the layout holds is wired or
\* set as with a full layout, whatever else is missing.
C10_WidgetsIndependent ==
    /\ ~nullDeref
    /\ \A w \in writes : w[1] = LabelNames[w[2]] /\ w[1] \in present
    /\ connected => "quit" \in present
    /\ CtorFinished =>
        /\ connected <=> "quit" \in present
        /\ \A i \in 1..4 :
            IF LabelNames[i] \in present
            THEN text[LabelNames[i]] = strs[i] /\ <<LabelNames[i], i>> \in writes
            ELSE text[LabelNames[i]] = LayoutText

C10_Witness ==
    /\ CtorFinished
    /\ present = {"main", "static_a", "dynamic_b"}
    /\ ~connected
    /\ strs[1] # strs[4]
    /\ text["static_a"] = strs[1]
    /\ text["static_b"] = LayoutText
    /\ text["dynamic_b"] = strs[4]

====
